---- MODULE Spec2Model ----
(***************************************************************************)
(* A model of the schema inference and merging engine of                   *)
(* json-to-schema-converter: objectToSchema, generateArraySchema,          *)
(* generateObjectSchema, generatePrimitiveSchema, generateStringSchema,    *)
(* mergeObjectSchemas and deduplicateSchemas.                              *)
(*                                                                         *)
(* JavaScript values are records tagged with their runtime shape.  A       *)
(* schema fragment is a record that has exactly the attributes the         *)
(* JavaScript object has; an attribute whose value is `undefined` is        *)
(* present with the value Undefined.  `properties` is the sequence of the  *)
(* own entries [k, v] in key order, since JSON.stringify and Object.keys   *)
(* are sensitive to that order.                                            *)
(***************************************************************************)
EXTENDS Integers, Sequences, FiniteSets, TLC

VARIABLES jsonString, value, options, depthArg, schemas, pc, result

vars == <<jsonString, value, options, depthArg, schemas, pc, result>>

(***************************************************************************)
(* Bounds of the model.                                                    *)
(***************************************************************************)
\* longest array value
MaxLen == 3
\* longest list of fragments handed to mergeObjectSchemas
MaxSchemas == 2
\* largest value of the depth option
MaxDepthOption == 3
\* longest list of fragments handed to deduplicateSchemas
MaxFragments == 3
\* most own keys of an object of KeySpec
MaxKeys == 2

(***************************************************************************)
(* Generic helpers.                                                        *)
(***************************************************************************)
Range(s) == {s[i] : i \in 1..Len(s)}

RECURSIVE Flatten(_)
Flatten(ss) == IF ss = <<>> THEN <<>> ELSE Head(ss) \o Flatten(Tail(ss))

\* Set.add of each name in order: a Set keeps the order of first insertion
RECURSIVE SetAddAll(_, _)
SetAddAll(set, names) ==
    IF names = <<>> THEN set
    ELSE SetAddAll(IF Head(names) \in Range(set) THEN set ELSE Append(set, Head(names)),
                   Tail(names))

\* an optional JavaScript value: undefined, or a defined value v
Undefined == <<>>
Some(v) == <<v>>

(***************************************************************************)
(* JavaScript values handed to objectToSchema.                             *)
(***************************************************************************)
JsNull == [tag |-> "null"]
JsUndefined == [tag |-> "undefined"]
\* values outside JSON that are no objects for typeof
JsSymbol == [tag |-> "symbol"]
JsBigInt == [tag |-> "bigint"]
JsFunction == [tag |-> "function"]
JsBoolean(b) == [tag |-> "boolean", b |-> b]
\* the number num/den
JsNumber(num, den) == [tag |-> "number", num |-> num, den |-> den]
JsString(s) == [tag |-> "string", s |-> s]
JsArray(elems) == [tag |-> "array", elems |-> elems]
\* entries: the own enumerable properties [k, v] in enumeration order
JsObject(entries) == [tag |-> "object", entries |-> entries]
\* an object whose prototype has enumerable members of its own
JsObjectWithPrototype(entries, inherited) ==
    [tag |-> "object", entries |-> entries, inherited |-> inherited]

\* typeof value, for a value that is neither null, an array nor an object
TypeOf(v) == v.tag

\* Number.isInteger(value)
NumberIsInteger(v) == v.num % v.den = 0

(***************************************************************************)
(* The members every ordinary object inherits from Object.prototype.  The  *)
(* `properties` objects are created by `{}` literals, so a read            *)
(* properties[prop] of a name that is no own key falls through to these.   *)
(***************************************************************************)
ObjectPrototypeKeys ==
    {"constructor", "toString", "toLocaleString", "valueOf",
     "hasOwnProperty", "isPrototypeOf", "propertyIsEnumerable"}

\* the function object found on Object.prototype under the name p
NativeFunction(p) == [native |-> p]
IsCallable(v) == "native" \in DOMAIN v

\* Object.keys(properties)
ObjectKeys(props) == [i \in 1..Len(props) |-> props[i].k]

\* Object.prototype.hasOwnProperty.call(properties, p)
HasOwnProperty(props, p) == \E i \in 1..Len(props) : props[i].k = p

\* properties[p]: the own value, else the inherited member, else undefined
Get(props, p) ==
    IF HasOwnProperty(props, p)
    THEN Some(props[CHOOSE i \in 1..Len(props) : props[i].k = p].v)
    ELSE IF p \in ObjectPrototypeKeys THEN Some(NativeFunction(p))
    ELSE Undefined

\* every object and function is truthy, undefined is falsy
Truthy(opt) == opt # Undefined

\* properties[p] = v: replaces an own entry in place, else appends one.  For
\* p = "__proto__" the assignment runs the setter inherited from
\* Object.prototype: v (always an object here) becomes the prototype of
\* `properties` and no own entry is made.  The replaced prototype is not
\* kept: values with a "__proto__" key occur only where no later read of
\* `properties` falls through to the prototype (KeySpec has no arrays).
Put(props, p, v) ==
    IF p = "__proto__" THEN props
    ELSE IF HasOwnProperty(props, p)
    THEN [i \in 1..Len(props) |-> IF props[i].k = p THEN [k |-> p, v |-> v] ELSE props[i]]
    ELSE Append(props, [k |-> p, v |-> v])

(***************************************************************************)
(* JSON.parse.  A JSON text is the sequence of its lexical tokens: the six *)
(* punctuators and the literals (a string, a number, true, false, null),   *)
(* each literal carrying the value it denotes.                             *)
(***************************************************************************)
Punct(c) == [t |-> c]
Lit(v) == [t |-> "lit", v |-> v]

\* the keys that are array indices, with their numeric values: an object
\* enumerates these first, in ascending numeric order
ArrayIndexKeys == {"0", "1", "10"}
IndexValue(k) == IF k = "0" THEN 0 ELSE IF k = "1" THEN 1 ELSE 10

\* k is enumerated before m when both are own keys, m having been created
\* before k
EnumeratedBefore(k, m) ==
    /\ k \in ArrayIndexKeys
    /\ m \in ArrayIndexKeys => IndexValue(k) < IndexValue(m)

\* CreateDataProperty(obj, k, v) on the entries of obj, which are kept in
\* enumeration order: an existing key keeps its place and gets the new value,
\* a new array index goes in front of the larger indices and of all other
\* keys, any other new key goes last
\* CreateDataProperty on an object that enumerates its keys in creation
\* order, array indices included
CreateDataPropertyInCreationOrder(entries, k, v) ==
    IF HasOwnProperty(entries, k)
    THEN [i \in 1..Len(entries) |-> IF entries[i].k = k THEN [k |-> k, v |-> v] ELSE entries[i]]
    ELSE Append(entries, [k |-> k, v |-> v])

CreateDataProperty(entries, k, v) ==
    IF HasOwnProperty(entries, k)
    THEN [i \in 1..Len(entries) |-> IF entries[i].k = k THEN [k |-> k, v |-> v] ELSE entries[i]]
    ELSE LET before == SelectSeq(entries, LAMBDA e : ~EnumeratedBefore(k, e.k))
             after == SelectSeq(entries, LAMBDA e : EnumeratedBefore(k, e.k))
         IN before \o <<[k |-> k, v |-> v]>> \o after

ParseFailure(message) == [ok |-> FALSE, message |-> message]
ParseSuccess(val, rest) == [ok |-> TRUE, val |-> val, rest |-> rest]

UnexpectedEnd == "Unexpected end of JSON input"
UnexpectedToken == "Unexpected token in JSON"

RECURSIVE ParseValue(_), ParseElements(_, _), ParseMembers(_, _)

\* one JSON value at the front of ts
ParseValue(ts) ==
    IF ts = <<>> THEN ParseFailure(UnexpectedEnd)
    ELSE IF Head(ts).t = "lit" THEN ParseSuccess(Head(ts).v, Tail(ts))
    ELSE IF Head(ts).t = "["
         THEN (IF Tail(ts) # <<>> /\ Head(Tail(ts)).t = "]"
               THEN ParseSuccess(JsArray(<<>>), Tail(Tail(ts)))
               ELSE ParseElements(Tail(ts), <<>>))
    ELSE IF Head(ts).t = "{"
         THEN (IF Tail(ts) # <<>> /\ Head(Tail(ts)).t = "}"
               THEN ParseSuccess(JsObject(<<>>), Tail(Tail(ts)))
               ELSE ParseMembers(Tail(ts), <<>>))
    ELSE ParseFailure(UnexpectedToken)

\* value ( "," value )* "]"
ParseElements(ts, elems) ==
    LET element == ParseValue(ts)
    IN IF ~element.ok THEN element
       ELSE IF element.rest = <<>> THEN ParseFailure(UnexpectedEnd)
       ELSE IF Head(element.rest).t = ","
            THEN ParseElements(Tail(element.rest), Append(elems, element.val))
       ELSE IF Head(element.rest).t = "]"
            THEN ParseSuccess(JsArray(Append(elems, element.val)), Tail(element.rest))
       ELSE ParseFailure(UnexpectedToken)

\* string ":" value ( "," string ":" value )* "}"
ParseMembers(ts, entries) ==
    IF ts = <<>> THEN ParseFailure(UnexpectedEnd)
    ELSE IF ~(Head(ts).t = "lit" /\ Head(ts).v.tag = "string") THEN ParseFailure(UnexpectedToken)
    ELSE IF Tail(ts) = <<>> THEN ParseFailure(UnexpectedEnd)
    ELSE IF Head(Tail(ts)).t # ":" THEN ParseFailure(UnexpectedToken)
    ELSE
    LET member == ParseValue(Tail(Tail(ts)))
        defined == CreateDataProperty(entries, Head(ts).v.s, member.val)
    IN IF ~member.ok THEN member
       ELSE IF member.rest = <<>> THEN ParseFailure(UnexpectedEnd)
       ELSE IF Head(member.rest).t = ","
            THEN ParseMembers(Tail(member.rest), defined)
       ELSE IF Head(member.rest).t = "}"
            THEN ParseSuccess(JsObject(defined), Tail(member.rest))
       ELSE ParseFailure(UnexpectedToken)

\* JSON.parse(text): one value and nothing after it
JSONParse(text) ==
    LET parsed == ParseValue(text)
    IN IF ~parsed.ok THEN parsed
       ELSE IF parsed.rest # <<>> THEN ParseFailure(UnexpectedToken)
       ELSE parsed

(***************************************************************************)
(* JSON.stringify of a fragment, as a sequence of tokens.  A key whose     *)
(* value is undefined or a function is left out, a function inside an      *)
(* array is written null, and a function by itself has no text at all      *)
(* (JSON.stringify returns undefined).  Attributes are written in the      *)
(* order in which the builders create them.                                *)
(***************************************************************************)
NoText == <<>>

RECURSIVE JSONStringify(_)
JSONStringify(v) ==
    IF IsCallable(v) THEN NoText
    ELSE
    LET typeText == IF "type" \in DOMAIN v THEN <<"type", ":", v.type>> ELSE <<>>
        formatText == IF "format" \in DOMAIN v THEN <<"format", ":", v.format>> ELSE <<>>
        propertiesText ==
            IF "properties" \in DOMAIN v
            THEN <<"properties", ":", "{">>
                 \o Flatten([i \in 1..Len(v.properties) |->
                        IF IsCallable(v.properties[i].v) THEN <<>>
                        ELSE <<v.properties[i].k, ":">> \o JSONStringify(v.properties[i].v)])
                 \o <<"}">>
            ELSE <<>>
        requiredText ==
            IF "required" \in DOMAIN v /\ v.required # Undefined
            THEN <<"required", ":", "[">> \o v.required[1] \o <<"]">>
            ELSE <<>>
        itemsText == IF "items" \in DOMAIN v THEN <<"items", ":">> \o JSONStringify(v.items) ELSE <<>>
        oneOfText ==
            IF "oneOf" \in DOMAIN v
            THEN <<"oneOf", ":", "[">>
                 \o Flatten([i \in 1..Len(v.oneOf) |->
                        IF IsCallable(v.oneOf[i]) THEN <<"null">>
                        ELSE JSONStringify(v.oneOf[i])])
                 \o <<"]">>
            ELSE <<>>
    IN <<"{">> \o typeText \o formatText \o propertiesText \o requiredText
              \o itemsText \o oneOfText \o <<"}">>

(***************************************************************************)
(* deduplicateSchemas: a Map from the serialized text to the schema; a     *)
(* later schema with the same text overwrites the value and keeps the      *)
(* position of the first.                                                  *)
(***************************************************************************)
\* map.set as delete-then-set: an overwritten key moves to the end
MapSetMoveToEnd(map, key, val) ==
    Append(SelectSeq(map, LAMBDA e : e.key # key), [key |-> key, val |-> val])

MapSet(map, key, val) ==
    IF \E i \in 1..Len(map) : map[i].key = key
    THEN [i \in 1..Len(map) |-> IF map[i].key = key THEN [key |-> key, val |-> val] ELSE map[i]]
    ELSE Append(map, [key |-> key, val |-> val])

\* the loop giving up at the first duplicate: the schemas after it are kept
\* unchecked
RECURSIVE DedupLoopStopAtDuplicate(_, _)
DedupLoopStopAtDuplicate(map, rest) ==
    IF rest = <<>> THEN map
    ELSE IF \E i \in 1..Len(map) : map[i].key = JSONStringify(Head(rest))
         THEN map \o [i \in 1..Len(Tail(rest)) |->
                         [key |-> JSONStringify(Tail(rest)[i]), val |-> Tail(rest)[i]]]
         ELSE DedupLoopStopAtDuplicate(
                 Append(map, [key |-> JSONStringify(Head(rest)), val |-> Head(rest)]),
                 Tail(rest))

RECURSIVE DedupLoop(_, _)
DedupLoop(map, rest) ==
    IF rest = <<>> THEN map
    ELSE DedupLoop(MapSet(map, JSONStringify(Head(rest)), Head(rest)), Tail(rest))

\* deduplicateSchemas keyed by schema.type instead of the text of the schema
TypeKey(s) == IF "type" \in DOMAIN s THEN s.type ELSE "undefined"

deduplicateSchemasByType(ss) ==
    LET types == SetAddAll(<<>>, [i \in 1..Len(ss) |-> TypeKey(ss[i])])
    IN [i \in 1..Len(types) |->
            ss[CHOOSE j \in 1..Len(ss) :
                    /\ TypeKey(ss[j]) = types[i]
                    /\ \A m \in (j + 1)..Len(ss) : TypeKey(ss[m]) # types[i]]]

deduplicateSchemas(ss) ==
    LET map == DedupLoop(<<>>, ss)
    IN [i \in 1..Len(map) |-> map[i].val]

(***************************************************************************)
(* mergeObjectSchemas.                                                     *)
(***************************************************************************)
\* the first loop stopping after the first schema
CollectPropertiesOfFirst(allProperties, rest) ==
    IF rest = <<>> THEN allProperties
    ELSE IF "properties" \in DOMAIN Head(rest)
         THEN SetAddAll(allProperties, ObjectKeys(Head(rest).properties))
         ELSE allProperties

\* the first loop: the property names of all schemas that have `properties`
RECURSIVE CollectAllProperties(_, _)
CollectAllProperties(allProperties, rest) ==
    IF rest = <<>> THEN allProperties
    ELSE CollectAllProperties(
            IF "properties" \in DOMAIN Head(rest)
            THEN SetAddAll(allProperties, ObjectKeys(Head(rest).properties))
            ELSE allProperties,
            Tail(rest))

\* schema.properties && schema.properties[prop]
MentionsProp(schema, prop) ==
    "properties" \in DOMAIN schema /\ Truthy(Get(schema.properties, prop))

\* Array.isArray(schema.required) && schema.required.includes(prop)
ListsRequired(schema, prop) ==
    /\ "required" \in DOMAIN schema
    /\ schema.required # Undefined
    /\ prop \in Range(schema.required[1])

\* the schemas the inner loop counts for prop, in input order
SchemasWithProp(ss, prop) == SelectSeq(ss, LAMBDA s : MentionsProp(s, prop))

\* propSchemas after the inner loop
PropSchemas(ss, prop) ==
    LET with == SchemasWithProp(ss, prop)
    IN [i \in 1..Len(with) |-> Get(with[i].properties, prop)[1]]

\* the unified schema of prop (schemasWithPropCount > 0)
UnifyProp(propSchemas) ==
    LET firstType == JSONStringify(propSchemas[1])
        allSameType == \A i \in 1..Len(propSchemas) : JSONStringify(propSchemas[i]) = firstType
    IN IF allSameType THEN propSchemas[1]
       ELSE [oneOf |-> deduplicateSchemas(propSchemas)]

\* the loop deleting prop also when every schema was counted
RequiredAfterLoopAlwaysDeleted(ss, prop) ==
    LET with == SchemasWithProp(ss, prop)
        added == \E i \in 1..Len(with) : ListsRequired(with[i], prop)
        deleted == Len(with) > 0 /\ Len(with) <= Len(ss)
    IN added /\ ~deleted

\* the loop taking required-ness from the first counted schema only
RequiredAfterLoopFirstOnly(ss, prop) ==
    LET with == SchemasWithProp(ss, prop)
        added == Len(with) > 0 /\ ListsRequired(with[1], prop)
        deleted == Len(with) > 0 /\ Len(with) < Len(ss)
    IN added /\ ~deleted

\* whether prop is in requiredProperties when its iteration ends: added by
\* any counted schema that lists it, deleted when some schema is not counted
RequiredAfterLoop(ss, prop) ==
    LET with == SchemasWithProp(ss, prop)
        added == \E i \in 1..Len(with) : ListsRequired(with[i], prop)
        deleted == Len(with) > 0 /\ Len(with) < Len(ss)
    IN added /\ ~deleted

RECURSIVE MergeLoop(_, _, _)
MergeLoop(ss, mergedProperties, rest) ==
    IF rest = <<>> THEN mergedProperties
    ELSE LET prop == Head(rest)
             propSchemas == PropSchemas(ss, prop)
         IN MergeLoop(ss,
                IF Len(propSchemas) > 0
                THEN Put(mergedProperties, prop, UnifyProp(propSchemas))
                ELSE mergedProperties,
                Tail(rest))

\* mergeObjectSchemas leaving `properties` out when nothing was merged
mergeObjectSchemasOmitEmpty(ss) ==
    LET allProperties == CollectAllProperties(<<>>, ss)
        mergedProperties == MergeLoop(ss, <<>>, allProperties)
        requiredProperties == SelectSeq(allProperties, LAMBDA p : RequiredAfterLoop(ss, p))
        required == IF Len(requiredProperties) > 0 THEN Some(requiredProperties)
                    ELSE Undefined
    IN IF Len(mergedProperties) > 0
       THEN [type |-> "object", properties |-> mergedProperties, required |-> required]
       ELSE [type |-> "object", required |-> required]

mergeObjectSchemas(ss) ==
    LET allProperties == CollectAllProperties(<<>>, ss)
        mergedProperties == MergeLoop(ss, <<>>, allProperties)
        requiredProperties == SelectSeq(allProperties, LAMBDA p : RequiredAfterLoop(ss, p))
    IN [type |-> "object",
        properties |-> mergedProperties,
        required |-> IF Len(requiredProperties) > 0 THEN Some(requiredProperties)
                     ELSE Undefined]

(***************************************************************************)
(* The strings of the model and the patterns of generateStringSchema they  *)
(* match (the regular expressions evaluated on each string).               *)
(***************************************************************************)
Strings ==
    {"hello", "2021-01-01", "2021-01-01T10:00:00Z", "a@b.co", "http://a.b",
     "http://a@b.co", "123e4567-e89b-12d3-a456-426614174000"}

MatchesDateTime(str) == str \in {"2021-01-01", "2021-01-01T10:00:00Z"}
MatchesEmail(str) == str \in {"a@b.co", "http://a@b.co"}
MatchesUri(str) == str \in {"http://a.b", "http://a@b.co"}
MatchesUuid(str) == str \in {"123e4567-e89b-12d3-a456-426614174000"}

\* generateStringSchema testing the uri pattern before the email pattern
generateStringSchemaUriFirst(str, opts) ==
    IF opts.detectFormat = Some(FALSE) THEN [type |-> "string"]
    ELSE IF MatchesDateTime(str) THEN [type |-> "string", format |-> "date-time"]
    ELSE IF MatchesUri(str) THEN [type |-> "string", format |-> "uri"]
    ELSE IF MatchesEmail(str) THEN [type |-> "string", format |-> "email"]
    ELSE IF MatchesUuid(str) THEN [type |-> "string", format |-> "uuid"]
    ELSE [type |-> "string"]

generateStringSchema(str, opts) ==
    IF opts.detectFormat = Some(FALSE) THEN [type |-> "string"]
    ELSE IF MatchesDateTime(str) THEN [type |-> "string", format |-> "date-time"]
    ELSE IF MatchesEmail(str) THEN [type |-> "string", format |-> "email"]
    ELSE IF MatchesUri(str) THEN [type |-> "string", format |-> "uri"]
    ELSE IF MatchesUuid(str) THEN [type |-> "string", format |-> "uuid"]
    ELSE [type |-> "string"]

\* generatePrimitiveSchema without the Number.isInteger test
generatePrimitiveSchemaNoInteger(v, opts) ==
    LET typeOfValue == TypeOf(v)
    IN IF typeOfValue = "string" THEN generateStringSchema(v.s, opts)
       ELSE [type |-> typeOfValue]

\* generatePrimitiveSchema taking every value that is no string and no number
\* for a boolean
generatePrimitiveSchemaBooleanFallback(v, opts) ==
    LET typeOfValue == TypeOf(v)
    IN IF typeOfValue = "string" THEN generateStringSchema(v.s, opts)
       ELSE IF typeOfValue = "number"
            THEN (IF NumberIsInteger(v) THEN [type |-> "integer"] ELSE [type |-> "number"])
       ELSE [type |-> "boolean"]

generatePrimitiveSchema(v, opts) ==
    LET typeOfValue == TypeOf(v)
    IN IF typeOfValue = "string" THEN generateStringSchema(v.s, opts)
       ELSE IF typeOfValue = "number"
            THEN (IF NumberIsInteger(v) THEN [type |-> "integer"] ELSE [type |-> "number"])
       ELSE [type |-> typeOfValue]

(***************************************************************************)
(* The recursive driver and the container builders.                        *)
(***************************************************************************)
RECURSIVE objectToSchema(_, _, _)
RECURSIVE generateArraySchema(_, _, _, _)
RECURSIVE generateObjectSchema(_, _, _, _)

\* the keys of schemasByType: the distinct `type` values in first-seen order
DistinctTypes(itemSchemas) ==
    SetAddAll(<<>>, [i \in 1..Len(itemSchemas) |-> itemSchemas[i].type])

\* schemasByType[t]
SchemasOfType(itemSchemas, t) == SelectSeq(itemSchemas, LAMBDA s : s.type = t)

\* generateArraySchema keeping the first element's whole fragment as `items`
\* of a single-typed array
generateArraySchemaKeepFirst(array, opts, currentDepth, depthReached) ==
    IF depthReached THEN [type |-> "array"]
    ELSE IF Len(array.elems) = 0 THEN [type |-> "array", items |-> <<>>]
    ELSE
    LET nextDepth == currentDepth + 1
        itemSchemas == [i \in 1..Len(array.elems) |->
                            objectToSchema(array.elems[i], opts, nextDepth)]
        distinctTypes == DistinctTypes(itemSchemas)
    IN IF Len(distinctTypes) = 1
       THEN LET singleType == distinctTypes[1]
            IN IF singleType = "object"
               THEN [type |-> "array",
                     items |-> mergeObjectSchemas(SchemasOfType(itemSchemas, singleType))]
               ELSE [type |-> "array", items |-> itemSchemas[1]]
       ELSE [type |-> "array", items |-> [oneOf |-> deduplicateSchemas(itemSchemas)]]

generateArraySchema(array, opts, currentDepth, depthReached) ==
    IF depthReached THEN [type |-> "array"]
    ELSE IF Len(array.elems) = 0 THEN [type |-> "array", items |-> <<>>]
    ELSE
    LET nextDepth == currentDepth + 1
        itemSchemas == [i \in 1..Len(array.elems) |->
                            objectToSchema(array.elems[i], opts, nextDepth)]
        distinctTypes == DistinctTypes(itemSchemas)
    IN IF Len(distinctTypes) = 1
       THEN LET singleType == distinctTypes[1]
            IN IF singleType = "object"
               THEN [type |-> "array",
                     items |-> mergeObjectSchemas(SchemasOfType(itemSchemas, singleType))]
               ELSE [type |-> "array", items |-> [type |-> singleType]]
       ELSE [type |-> "array", items |-> [oneOf |-> deduplicateSchemas(itemSchemas)]]

\* for (const key in obj): the own enumerable keys, then the enumerable keys
\* of the prototype that no own key shadows
ForIn(obj) ==
    LET inherited == IF "inherited" \in DOMAIN obj THEN obj.inherited ELSE <<>>
    IN [i \in 1..Len(obj.entries) |->
            [k |-> obj.entries[i].k, v |-> obj.entries[i].v, own |-> TRUE]]
       \o SelectSeq([i \in 1..Len(inherited) |->
                        [k |-> inherited[i].k, v |-> inherited[i].v, own |-> FALSE]],
                    LAMBDA e : ~HasOwnProperty(obj.entries, e.k))

\* the keys of the loop that pass Object.prototype.hasOwnProperty.call(obj, key)
OwnKeysOfLoop(obj) == SelectSeq(ForIn(obj), LAMBDA e : e.own)

\* the loop inferring the nested values without the caller's options
RECURSIVE ObjectLoopWithoutOptions(_, _, _, _)
ObjectLoopWithoutOptions(entries, opts, nextDepth, properties) ==
    IF entries = <<>> THEN properties
    ELSE ObjectLoopWithoutOptions(Tail(entries), opts, nextDepth,
            Put(properties, Head(entries).k,
                objectToSchema(Head(entries).v,
                               [detectFormat |-> Undefined, depth |-> opts.depth],
                               nextDepth)))

RECURSIVE ObjectLoop(_, _, _, _)
ObjectLoop(entries, opts, nextDepth, properties) ==
    IF entries = <<>> THEN properties
    ELSE ObjectLoop(Tail(entries), opts, nextDepth,
            Put(properties, Head(entries).k,
                objectToSchema(Head(entries).v, opts, nextDepth)))

\* generateObjectSchema returning the required list as it is, empty or not
generateObjectSchemaKeepEmptyRequired(obj, opts, currentDepth, depthReached) ==
    IF depthReached THEN [type |-> "object"]
    ELSE
    LET nextDepth == currentDepth + 1
        properties == ObjectLoop(OwnKeysOfLoop(obj), opts, nextDepth, <<>>)
        required == ObjectKeys(OwnKeysOfLoop(obj))
    IN [type |-> "object",
        properties |-> properties,
        required |-> Some(required)]

generateObjectSchema(obj, opts, currentDepth, depthReached) ==
    IF depthReached THEN [type |-> "object"]
    ELSE
    LET nextDepth == currentDepth + 1
        properties == ObjectLoop(OwnKeysOfLoop(obj), opts, nextDepth, <<>>)
        required == ObjectKeys(OwnKeysOfLoop(obj))
    IN [type |-> "object",
        properties |-> properties,
        required |-> IF Len(required) > 0 THEN Some(required) ELSE Undefined]

\* objectToSchema comparing currentDepth > maxDepth
objectToSchemaBoundOffByOne(v, opts, currentDepth) ==
    LET maxDepth == opts.depth
        depthReached == maxDepth # Undefined /\ currentDepth > maxDepth[1]
    IN IF v.tag = "null" THEN [type |-> "null"]
       ELSE IF v.tag = "array" THEN generateArraySchema(v, opts, currentDepth, depthReached)
       ELSE IF v.tag = "object" THEN generateObjectSchema(v, opts, currentDepth, depthReached)
       ELSE generatePrimitiveSchema(v, opts)

\* objectToSchema cutting every value at the bound, leaves included: a leaf
\* at the bound gets its bare runtime type
objectToSchemaCutLeaves(v, opts, currentDepth) ==
    LET maxDepth == opts.depth
        depthReached == maxDepth # Undefined /\ currentDepth >= maxDepth[1]
    IN IF v.tag = "null" THEN [type |-> IF depthReached THEN "object" ELSE "null"]
       ELSE IF v.tag = "array" THEN generateArraySchema(v, opts, currentDepth, depthReached)
       ELSE IF v.tag = "object" THEN generateObjectSchema(v, opts, currentDepth, depthReached)
       ELSE IF depthReached THEN [type |-> TypeOf(v)]
       ELSE generatePrimitiveSchema(v, opts)

objectToSchema(v, opts, currentDepth) ==
    LET maxDepth == opts.depth
        depthReached == maxDepth # Undefined /\ currentDepth >= maxDepth[1]
    IN IF v.tag = "null" THEN [type |-> "null"]
       ELSE IF v.tag = "array" THEN generateArraySchema(v, opts, currentDepth, depthReached)
       ELSE IF v.tag = "object" THEN generateObjectSchema(v, opts, currentDepth, depthReached)
       ELSE generatePrimitiveSchema(v, opts)

(***************************************************************************)
(* The calls of objectToSchema made for one value: the call itself and,    *)
(* for a container whose bound is not reached, the calls on its elements   *)
(* or on the values of its own keys with nextDepth = currentDepth + 1.     *)
(* Each call is <<value, currentDepth>>.                                   *)
(***************************************************************************)
\* the values a container hands to objectToSchema
Children(v) ==
    IF v.tag = "array" THEN Range(v.elems)
    ELSE IF v.tag = "object" THEN {e.v : e \in Range(OwnKeysOfLoop(v))}
    ELSE {}

\* the calls with the bound compared by > : a container at the bound is
\* descended into
RECURSIVE InvocationsBoundOffByOne(_, _, _)
InvocationsBoundOffByOne(v, opts, currentDepth) ==
    LET maxDepth == opts.depth
        depthReached == maxDepth # Undefined /\ currentDepth > maxDepth[1]
        nextDepth == currentDepth + 1
    IN {<<v, currentDepth>>}
       \cup (IF depthReached THEN {}
             ELSE UNION {InvocationsBoundOffByOne(c, opts, nextDepth) : c \in Children(v)})

RECURSIVE Invocations(_, _, _)
Invocations(v, opts, currentDepth) ==
    LET maxDepth == opts.depth
        depthReached == maxDepth # Undefined /\ currentDepth >= maxDepth[1]
        nextDepth == currentDepth + 1
    IN {<<v, currentDepth>>}
       \cup (IF depthReached THEN {}
             ELSE UNION {Invocations(c, opts, nextDepth) : c \in Children(v)})

(***************************************************************************)
(* jsonToSchema: JSON.parse, the engine, and the `$schema` attribute put    *)
(* in front of the attributes of the engine's fragment.                    *)
(***************************************************************************)
\* the switch with the latest draft as its default
SchemaUrlLatest(schemaVersion) ==
    IF schemaVersion = Some("2019-09") THEN "https://json-schema.org/draft/2019-09/schema"
    ELSE "https://json-schema.org/draft/2020-12/schema"

\* the switch on options.schemaVersion
SchemaUrl(schemaVersion) ==
    IF schemaVersion = Some("2019-09") THEN "https://json-schema.org/draft/2019-09/schema"
    ELSE IF schemaVersion = Some("2020-12") THEN "https://json-schema.org/draft/2020-12/schema"
    ELSE "http://json-schema.org/draft-07/schema#"

\* jsonToSchema whose catch block returns the schema of null
jsonToSchemaSwallowingErrors(text, opts) ==
    LET parsed == JSONParse(text)
    IN IF parsed.ok
       THEN [returned |-> ("$schema" :> SchemaUrl(opts.schemaVersion))
                              @@ objectToSchema(parsed.val, opts, 0)]
       ELSE [returned |-> ("$schema" :> SchemaUrl(opts.schemaVersion)) @@ [type |-> "null"]]

\* jsonToSchema: the schema returned, or the message of the error thrown
jsonToSchema(text, opts) ==
    LET parsed == JSONParse(text)
    IN IF parsed.ok
       THEN [returned |-> ("$schema" :> SchemaUrl(opts.schemaVersion))
                              @@ objectToSchema(parsed.val, opts, 0)]
       ELSE [thrown |-> <<"Invalid JSON: ", parsed.message>>]

(***************************************************************************)
(* The inputs of the model.                                                *)
(***************************************************************************)
\* sequences over S of length at most n
SeqsUpTo(S, n) == UNION {[1..m -> S] : m \in 0..n}

\* the property names of the model; "constructor" is also a member of
\* Object.prototype
PropertyNames == {"a", "constructor"}

\* lists of distinct property names, in every order
KeyLists ==
    {ks \in SeqsUpTo(PropertyNames, Cardinality(PropertyNames)) :
        \A i, j \in 1..Len(ks) : i # j => ks[i] # ks[j]}

\* objects whose keys are a KeyList and whose values come from Vals
ObjectsOver(Vals) ==
    UNION {{JsObject([i \in 1..Len(ks) |-> [k |-> ks[i], v |-> vs[i]]]) :
                vs \in [1..Len(ks) -> Vals]} : ks \in KeyLists}

ArraysOver(Vals) == {JsArray(es) : es \in SeqsUpTo(Vals, MaxLen)}

Leaves ==
    {JsNull, JsUndefined, JsBoolean(TRUE), JsBoolean(FALSE),
     JsNumber(1, 1), JsNumber(4, 2), JsNumber(5, 2)}
    \cup {JsString(s) : s \in Strings}

\* the elements of the arrays of the model
ElementLeaves ==
    {JsNull, JsNumber(1, 1), JsNumber(5, 2), JsString("hello"), JsString("a@b.co")}

FlatObjects == ObjectsOver({JsNumber(1, 1), JsString("a@b.co")})

ElementObjects ==
    {o \in FlatObjects :
        Len(o.entries) <= 1 \/ \A i \in 1..Len(o.entries) : o.entries[i].v.tag = "number"}

\* a non-empty array inside an array comes from Wrap
ElementArrays == {JsArray(<<>>)}

Elements == ElementLeaves \cup ElementObjects \cup ElementArrays

BaseValues == Leaves \cup FlatObjects \cup ArraysOver(Elements)

\* one more container level around x
Wrap(x) ==
    {JsObject(<<[k |-> "a", v |-> x]>>),
     JsObject(<<[k |-> "constructor", v |-> x], [k |-> "a", v |-> JsNumber(1, 1)]>>),
     JsArray(<<x>>)}

\* the values that are nested further: the arrays among them have at most
\* two elements
WrapSeeds == {x \in BaseValues : x.tag = "array" => Len(x.elems) <= 2}

WrappedOnce == UNION {Wrap(x) : x \in WrapSeeds}
WrappedTwice == {JsObject(<<[k |-> "a", v |-> y]>>) : y \in WrappedOnce}

Values == BaseValues \cup WrappedOnce \cup WrappedTwice \cup {JsSymbol, JsBigInt, JsFunction}

\* JsonSchemaOptions: each option is unset (undefined) or set
Options ==
    [detectFormat : {Undefined, Some(FALSE), Some(TRUE)},
     depth : {Undefined} \cup {Some(k) : k \in 0..MaxDepthOption}]

DefaultOptions == [detectFormat |-> Undefined, depth |-> Undefined]

\* the fragments handed to mergeObjectSchemas: object fragments without
\* `properties`, or with properties over a KeyList, each with or without a
\* `required` list (which may name keys the fragment does not have)
SubFragments == {[type |-> "integer"], [type |-> "string"]}

PropertyLists ==
    UNION {{[i \in 1..Len(ks) |-> [k |-> ks[i], v |-> fs[i]]] :
                fs \in [1..Len(ks) -> SubFragments]} : ks \in KeyLists}

RequiredLists == {<<"a">>, <<"constructor">>, <<"a", "constructor">>}

WithRequired(f) == {f} \cup {f @@ [required |-> Some(r)] : r \in RequiredLists}

ObjectFragments ==
    UNION {WithRequired(f) :
            f \in {[type |-> "object"]}
                  \cup {[type |-> "object", properties |-> ps] : ps \in PropertyLists}}

\* the fragments handed to deduplicateSchemas: leaf fragments, object
\* fragments with the same two properties in either key order, an object
\* fragment with and without an undefined `required`, and an array fragment
TwoProperties ==
    <<[k |-> "a", v |-> [type |-> "integer"]], [k |-> "b", v |-> [type |-> "string"]]>>

DedupFragments ==
    {[type |-> "string"],
     [type |-> "string", format |-> "email"],
     [type |-> "integer"],
     [type |-> "object"],
     [type |-> "object", properties |-> <<>>],
     [type |-> "object", properties |-> <<>>, required |-> Undefined],
     [type |-> "object", properties |-> TwoProperties],
     [type |-> "object", properties |-> <<TwoProperties[2], TwoProperties[1]>>],
     [type |-> "array", items |-> [type |-> "integer"]]}

\* the keys of the objects of KeySpec: an ordinary name, a name that is also
\* a member of Object.prototype, and "__proto__" (an own key of an object
\* made by JSON.parse)
KeyNames == {"a", "constructor", "__proto__"}

KeyLeaves == {JsNull, JsNumber(1, 1), JsString("a@b.co")}

\* the enumerable members of a prototype: none, one an own key may shadow,
\* one that no own key shadows
InheritedLists ==
    {<<>>, <<[k |-> "a", v |-> JsNumber(5, 2)]>>, <<[k |-> "p", v |-> JsString("hello")]>>}

\* objects with at most MaxKeys distinct keys, in every order
KeyObjectsOver(Vals) ==
    UNION {{JsObjectWithPrototype([i \in 1..Len(ks) |-> [k |-> ks[i], v |-> vs[i]]], inh) :
                vs \in [1..Len(ks) -> Vals], inh \in InheritedLists} :
            ks \in {ls \in SeqsUpTo(KeyNames, MaxKeys) :
                        \A i, j \in 1..Len(ls) : i # j => ls[i] # ls[j]}}

\* flat objects, and objects holding one flat object under each key
KeyValues ==
    KeyObjectsOver(KeyLeaves)
    \cup {JsObject(<<[k |-> n, v |-> o]>>) :
            n \in KeyNames, o \in KeyObjectsOver({JsNumber(1, 1)})}

\* the JSON texts of JsonSpec.  Keys: an ordinary name, array indices (out of
\* numeric order when written "10" before "1") and "__proto__"; a text may
\* write the same key twice
JsonKeyNames == {"a", "1", "10", "__proto__"}

ScalarTexts ==
    {<<Lit(JsNumber(1, 1))>>, <<Lit(JsNumber(5, 2))>>, <<Lit(JsString("a@b.co"))>>,
     <<Lit(JsNull)>>, <<Lit(JsBoolean(TRUE))>>}

\* "{" key ":" value ( "," key ":" value )* "}"
ObjectText(ks, vts) ==
    <<Punct("{")>>
    \o Flatten([i \in 1..Len(ks) |->
            (IF i > 1 THEN <<Punct(",")>> ELSE <<>>)
            \o <<Lit(JsString(ks[i])), Punct(":")>> \o vts[i]])
    \o <<Punct("}")>>

ArrayText(vts) ==
    <<Punct("[")>>
    \o Flatten([i \in 1..Len(vts) |-> (IF i > 1 THEN <<Punct(",")>> ELSE <<>>) \o vts[i]])
    \o <<Punct("]")>>

ObjectTextsOver(ValueTexts) ==
    UNION {{ObjectText(ks, vts) : vts \in [1..Len(ks) -> ValueTexts]} :
            ks \in SeqsUpTo(JsonKeyNames, MaxKeys)}

\* scalars, flat objects, objects holding one object, and arrays of at most
\* two scalars or objects
WellFormedTexts ==
    ScalarTexts
    \cup ObjectTextsOver({<<Lit(JsNumber(1, 1))>>, <<Lit(JsString("a@b.co"))>>})
    \cup {ObjectText(<<n>>, <<o>>) :
            n \in {"a", "__proto__"}, o \in ObjectTextsOver({<<Lit(JsNumber(1, 1))>>})}
    \cup {ArrayText(vts) :
            vts \in SeqsUpTo({<<Lit(JsNumber(1, 1))>>, <<Lit(JsString("a@b.co"))>>,
                              ObjectText(<<>>, <<>>),
                              ObjectText(<<"a">>, <<<<Lit(JsNumber(1, 1))>>>>)}, 2)}

\* a text with its i-th token left out
WithoutToken(text, i) == SubSeq(text, 1, i - 1) \o SubSeq(text, i + 1, Len(text))

\* the well-formed texts and each of them with one token missing (most of
\* which no longer parse)
JsonTexts ==
    WellFormedTexts
    \cup UNION {{WithoutToken(text, i) : i \in 1..Len(text)} : text \in WellFormedTexts}

\* the options of jsonToSchema.  optimizeForLLM is no member of
\* JsonSchemaOptions: it is the option the README documents and the example
\* passes, which no code reads
JsonOptions ==
    [detectFormat : {Undefined, Some(FALSE)},
     depth : {Undefined, Some(0), Some(1)},
     schemaVersion : {Undefined, Some("07"), Some("2019-09"), Some("2020-12")},
     optimizeForLLM : {Undefined, Some(FALSE), Some(TRUE)}]

NoResult == [pending |-> TRUE]

(***************************************************************************)
(* Spec: one call objectToSchema(value, options, depthArg).             *)
(***************************************************************************)
Init ==
    /\ value \in Values
    /\ options \in Options
    /\ depthArg \in 0..MaxDepthOption
    /\ schemas = <<>>
    /\ jsonString = <<>>
    /\ pc = "call"
    /\ result = NoResult

CallObjectToSchema ==
    /\ pc = "call"
    /\ result' = objectToSchema(value, options, depthArg)
    /\ pc' = "return"
    /\ UNCHANGED <<jsonString, value, options, depthArg, schemas>>

Next == CallObjectToSchema

Spec == Init /\ [][Next]_vars

(***************************************************************************)
(* MergeSpec: one call mergeObjectSchemas(schemas).                        *)
(***************************************************************************)
MergeInit ==
    /\ value = JsNull
    /\ options = DefaultOptions
    /\ depthArg = 0
    /\ schemas \in SeqsUpTo(ObjectFragments, MaxSchemas)
    /\ jsonString = <<>>
    /\ pc = "call"
    /\ result = NoResult

CallMergeObjectSchemas ==
    /\ pc = "call"
    /\ result' = mergeObjectSchemas(schemas)
    /\ pc' = "return"
    /\ UNCHANGED <<jsonString, value, options, depthArg, schemas>>

MergeNext == CallMergeObjectSchemas

MergeSpec == MergeInit /\ [][MergeNext]_vars

(***************************************************************************)
(* DedupSpec: one call deduplicateSchemas(schemas).                        *)
(***************************************************************************)
DedupInit ==
    /\ value = JsNull
    /\ options = DefaultOptions
    /\ depthArg = 0
    /\ schemas \in SeqsUpTo(DedupFragments, MaxFragments)
    /\ jsonString = <<>>
    /\ pc = "call"
    /\ result = NoResult

CallDeduplicateSchemas ==
    /\ pc = "call"
    /\ result' = deduplicateSchemas(schemas)
    /\ pc' = "return"
    /\ UNCHANGED <<jsonString, value, options, depthArg, schemas>>

DedupNext == CallDeduplicateSchemas

DedupSpec == DedupInit /\ [][DedupNext]_vars

(***************************************************************************)
(* KeySpec: one call objectToSchema(value, options) on an object without   *)
(* arrays, over the wider key universe KeyNames.                           *)
(***************************************************************************)
KeyInit ==
    /\ value \in KeyValues
    /\ options \in Options
    /\ depthArg = 0
    /\ schemas = <<>>
    /\ jsonString = <<>>
    /\ pc = "call"
    /\ result = NoResult

KeyNext == CallObjectToSchema

KeySpec == KeyInit /\ [][KeyNext]_vars

(***************************************************************************)
(* JsonSpec: one call jsonToSchema(jsonString, options).  `value` holds    *)
(* the parsed value (the local `json`) once the text has parsed.           *)
(***************************************************************************)
JsonInit ==
    /\ jsonString \in JsonTexts
    /\ options \in JsonOptions
    /\ value = JsUndefined
    /\ depthArg = 0
    /\ schemas = <<>>
    /\ pc = "call"
    /\ result = NoResult

CallJsonToSchema ==
    /\ pc = "call"
    /\ LET parsed == JSONParse(jsonString)
           outcome == jsonToSchema(jsonString, options)
       IN IF "returned" \in DOMAIN outcome
          THEN /\ value' = IF parsed.ok THEN parsed.val ELSE value
               /\ result' = outcome.returned
               /\ pc' = "return"
          ELSE /\ value' = value
               /\ result' = [thrown |-> outcome.thrown]
               /\ pc' = "throw"
    /\ UNCHANGED <<jsonString, options, depthArg, schemas>>

JsonNext == CallJsonToSchema

JsonSpec == JsonInit /\ [][JsonNext]_vars

(***************************************************************************)
(* Vocabulary of the properties.                                           *)
(***************************************************************************)
\* `required` is present: an undefined value counts as absent
HasRequired(f) == "required" \in DOMAIN f /\ f.required # Undefined

\* the names listed by `required`, none when it is absent
RequiredNames(f) == IF HasRequired(f) THEN Range(f.required[1]) ELSE {}

\* the own property names of a fragment, none when it has no `properties`
OwnNames(f) == IF "properties" \in DOMAIN f THEN Range(ObjectKeys(f.properties)) ELSE {}

\* exactly {type: t}, with no other attribute
IsTypeOnly(f, t) == f = [type |-> t]

\* the depth bound is reached at recursion depth r
BoundReached(opts, r) == opts.depth # Undefined /\ r >= opts.depth[1]

\* the top-level type the engine should give a value: the JSON type, with
\* whole numbers as "integer"
KindOf(v) ==
    IF v.tag = "number" THEN (IF v.num % v.den = 0 THEN "integer" ELSE "number")
    ELSE v.tag

IsContainer(v) == v.tag \in {"array", "object"}

Returned == pc = "return"

\* the positions of `v` reached through object properties only, each with the
\* fragment found at the same path of `f` and its recursion depth
RECURSIVE Reached(_, _, _)
Reached(v, f, r) ==
    {<<v, f, r>>}
    \cup (IF v.tag = "object" /\ "properties" \in DOMAIN f
          THEN UNION {Reached(v.entries[i].v,
                              Get(f.properties, v.entries[i].k)[1], r + 1) :
                        i \in {j \in 1..Len(v.entries) :
                                  HasOwnProperty(f.properties, v.entries[j].k)}}
          ELSE {})

(***************************************************************************)
(* Properties of mergeObjectSchemas (MergeSpec).                           *)
(***************************************************************************)
\* the input fragments whose `properties` have p as an own key, in input order
InputsHaving(p) == SelectSeq(schemas, LAMBDA s : p \in OwnNames(s))

\* the union of the inputs' property names
UnionOfNames == UNION {OwnNames(schemas[i]) : i \in 1..Len(schemas)}

\* C1: a name is in the merged `required` only if it is a key of `properties`
\* in every input fragment; the merged `required` is a subset of the
\* intersection of the inputs' property-name sets.
C1_RequiredWithinIntersection ==
    Returned =>
        \A p \in RequiredNames(result) :
            \A i \in 1..Len(schemas) : p \in OwnNames(schemas[i])

\* C2: a name is in the merged `required` only if every input fragment whose
\* `properties` contain it lists it in its own `required`.
C2_RequiredInEveryInputHavingIt ==
    Returned =>
        \A p \in RequiredNames(result) :
            \A i \in 1..Len(schemas) :
                p \in OwnNames(schemas[i]) => p \in RequiredNames(schemas[i])

\* C9: for every property name of the union, with S the sub-fragments of the
\* inputs that have it, in input order: the merged schema of the property is
\* the shared fragment when all of S are identical, and otherwise exactly
\* {oneOf: deduplicateSchemas(S)}, whose alternatives are members of S.
C9_PropertyUnified ==
    Returned =>
        \A p \in UnionOfNames :
            LET having == InputsHaving(p)
                S == [i \in 1..Len(having) |-> Get(having[i].properties, p)[1]]
                merged == Get(result.properties, p)[1]
            IN /\ HasOwnProperty(result.properties, p)
               /\ IF \A i \in 1..Len(S) : S[i] = S[1]
                  THEN merged = S[1]
                  ELSE /\ merged = [oneOf |-> deduplicateSchemas(S)]
                       /\ Range(merged.oneOf) = Range(S)

\* C10: the merged fragment has type "object" and its `properties` keys are
\* exactly the union of the inputs' property names; merging the empty list
\* gives exactly {type: "object", properties: {}} with no `required`.
C10_PropertiesAreUnion ==
    Returned =>
        /\ result.type = "object"
        /\ "properties" \in DOMAIN result
        /\ Range(ObjectKeys(result.properties)) = UnionOfNames
        /\ Len(result.properties) = Cardinality(UnionOfNames)
        /\ schemas = <<>> =>
              /\ DOMAIN result \subseteq {"type", "properties", "required"}
              /\ result.properties = <<>>
              /\ ~HasRequired(result)

\* two inputs with different property names: the union joins "a" and
\* "constructor"
C10_Witness ==
    /\ Returned
    /\ Len(schemas) = 2
    /\ OwnNames(schemas[1]) = {"a"}
    /\ OwnNames(schemas[2]) = {"constructor"}
    /\ Range(ObjectKeys(result.properties)) = {"a", "constructor"}

(***************************************************************************)
(* Properties of objectToSchema (Spec).                                    *)
(***************************************************************************)
\* the own keys of an object value
KeysOf(v) == Range(ObjectKeys(v.entries))

\* a non-empty array value
IsNonEmptyArray(v) == v.tag = "array" /\ Len(v.elems) > 0

\* a non-empty array whose elements are all objects
IsArrayOfObjects(v) ==
    IsNonEmptyArray(v) /\ \A i \in 1..Len(v.elems) : v.elems[i].tag = "object"

\* the fragments of the elements of an array reached at recursion depth r
ElementFragments(v, r) ==
    [i \in 1..Len(v.elems) |-> objectToSchema(v.elems[i], options, r + 1)]

\* C3: a non-empty array of objects, the bound not reached at the array (nor
\* at its elements, so that the elements' properties are inferred), gives
\* {type: "array", items: M} with M the merge of the element fragments, and a
\* property is required in M exactly when every element has it.
C3_ArrayOfObjectsMerged ==
    (/\ Returned
     /\ IsArrayOfObjects(value)
     /\ ~BoundReached(options, depthArg + 1)) =>
        /\ result = [type |-> "array",
                     items |-> mergeObjectSchemas(ElementFragments(value, depthArg))]
        /\ \A p \in PropertyNames :
              p \in RequiredNames(result.items)
                  <=> \A i \in 1..Len(value.elems) : p \in KeysOf(value.elems[i])

\* the fragment f of the value v reached at recursion depth r follows the depth
\* bound along every path of nested objects: an object at or beyond the bound
\* is exactly {type: "object"}, an object before it has all its keys in
\* `properties` and in `required`
RECURSIVE ObjectsCutAtBound(_, _, _)
ObjectsCutAtBound(v, f, r) ==
    IF v.tag # "object" THEN TRUE
    ELSE IF BoundReached(options, r) THEN IsTypeOnly(f, "object")
    ELSE /\ f.type = "object"
         /\ "properties" \in DOMAIN f
         /\ ObjectKeys(f.properties) = ObjectKeys(v.entries)
         /\ RequiredNames(f) = KeysOf(v)
         /\ Len(v.entries) > 0 => HasRequired(f) /\ Len(f.required[1]) = Len(v.entries)
         /\ \A i \in 1..Len(v.entries) :
               ObjectsCutAtBound(v.entries[i].v, f.properties[i].v, r + 1)

\* the number of objects along the longest chain of nested objects from v
RECURSIVE NestingDepth(_)
NestingDepth(v) ==
    IF v.tag # "object" THEN 0
    ELSE 1 + (IF v.entries = <<>> THEN 0
              ELSE CHOOSE n \in {NestingDepth(v.entries[i].v) : i \in 1..Len(v.entries)} :
                      \A j \in 1..Len(v.entries) : NestingDepth(v.entries[j].v) <= n)

\* C4: with depth k, along a chain of nested objects the object reached at
\* recursion depth k is exactly {type: "object"} and every object reached at
\* a depth below k keeps its full `properties` and `required`.
C4_DepthCutOffBoundary ==
    (/\ Returned
     /\ value.tag = "object"
     /\ options.depth # Undefined
     /\ options.depth[1] < depthArg + NestingDepth(value))
        => ObjectsCutAtBound(value, result, depthArg)

\* {level1: {level2: {a: 1}}} with depth 2: the third object is cut, the two
\* above it are complete
C4_Witness ==
    /\ Returned
    /\ depthArg = 0
    /\ options.depth = Some(2)
    /\ value = JsObject(<<[k |-> "a", v |->
                  JsObject(<<[k |-> "a", v |->
                      JsObject(<<[k |-> "a", v |-> JsNumber(1, 1)]>>)]>>)]>>)
    /\ result.properties[1].v.properties[1].v = [type |-> "object"]
    /\ result.properties[1].v.required = Some(<<"a">>)

\* the merged `items` of an array whose object elements sit at the bound
IsEmptyObjectItems(items) ==
    /\ DOMAIN items \subseteq {"type", "properties", "required"}
    /\ "type" \in DOMAIN items /\ items.type = "object"
    /\ "properties" \in DOMAIN items /\ items.properties = <<>>
    /\ ~HasRequired(items)

IsSingletonOfLeaf(v) == v.tag = "array" /\ Len(v.elems) = 1 /\ ~IsContainer(v.elems[1])

\* C6 as stated: objectToSchema([x]).items equals objectToSchema(x) for every
\* leaf x, strings that match a format included.
C6_NarrowingRoundTrip ==
    (Returned /\ IsSingletonOfLeaf(value) /\ options = DefaultOptions /\ depthArg = 0) =>
        result.items = objectToSchema(value.elems[1], options, 0)

\* C6 amended: objectToSchema([x]).items equals objectToSchema(x) for every
\* leaf x whose own fragment has no `format`; for a string that matches a
\* format, items is {type: "string"}, the fragment of x without its format.
C6_NarrowingRoundTripUnformatted ==
    (Returned /\ IsSingletonOfLeaf(value) /\ options = DefaultOptions /\ depthArg = 0) =>
        LET leaf == objectToSchema(value.elems[1], options, 0)
        IN /\ DOMAIN result = {"type", "items"}
           /\ result.type = "array"
           /\ "format" \notin DOMAIN leaf => result.items = leaf
           /\ "format" \in DOMAIN leaf =>
                 /\ leaf.type = "string"
                 /\ IsTypeOnly(result.items, "string")

\* ["a@b.co"]: the element is an email, items is a bare string
C6_Witness ==
    /\ Returned
    /\ options = DefaultOptions
    /\ depthArg = 0
    /\ value = JsArray(<<JsString("a@b.co")>>)
    /\ objectToSchema(value.elems[1], options, 0) = [type |-> "string", format |-> "email"]
    /\ result.items = [type |-> "string"]

\* the top-level types of the elements of an array
ElementKinds(v) == {KindOf(v.elems[i]) : i \in 1..Len(v.elems)}

\* C7: a non-empty array, the bound not reached, whose elements all have the
\* same top-level type T other than "object" gives exactly
\* {type: "array", items: {type: T}}.
C7_SingleTypeItemsTypeOnly ==
    Returned =>
        \A pos \in Reached(value, result, depthArg) :
            (/\ IsNonEmptyArray(pos[1])
             /\ ~BoundReached(options, pos[3])
             /\ Cardinality(ElementKinds(pos[1])) = 1
             /\ ElementKinds(pos[1]) # {"object"}) =>
                \E T \in ElementKinds(pos[1]) :
                    pos[2] = [type |-> "array", items |-> [type |-> T]]

\* an array of two strings, one of them formatted
C7_Witness ==
    /\ Returned
    /\ options = DefaultOptions
    /\ value.tag = "array"
    /\ Len(value.elems) = 2
    /\ value.elems[1] = JsString("a@b.co")
    /\ value.elems[2] = JsString("hello")
    /\ result = [type |-> "array", items |-> [type |-> "string"]]

\* C8: an array, the bound not reached, whose elements have more than one
\* top-level type gives {type: "array", items: {oneOf: D}}, D being
\* deduplicateSchemas of the element fragments in element order: every
\* element's own fragment is a member of D and nothing else is.
C8_MixedTypesOneOf ==
    Returned =>
        \A pos \in Reached(value, result, depthArg) :
            (/\ IsNonEmptyArray(pos[1])
             /\ ~BoundReached(options, pos[3])
             /\ Cardinality(ElementKinds(pos[1])) > 1) =>
                LET fragments == ElementFragments(pos[1], pos[3])
                IN /\ DOMAIN pos[2] = {"type", "items"}
                   /\ pos[2].type = "array"
                   /\ DOMAIN pos[2].items = {"oneOf"}
                   /\ pos[2].items.oneOf = deduplicateSchemas(fragments)
                   /\ Range(pos[2].items.oneOf) = Range(fragments)

\* two different objects and an integer: three alternatives
C8_Witness ==
    /\ Returned
    /\ options = DefaultOptions
    /\ depthArg = 0
    /\ value.tag = "array"
    /\ Len(value.elems) = 3
    /\ value.elems[1].tag = "object"
    /\ value.elems[2].tag = "object"
    /\ value.elems[1] # value.elems[2]
    /\ value.elems[3] = JsNumber(1, 1)
    /\ "oneOf" \in DOMAIN result.items
    /\ Len(result.items.oneOf) = 3

(***************************************************************************)
(* Merge identity (MergeSpec).                                             *)
(***************************************************************************)
\* a fragment that has `properties` and whose `required` lists exactly its own
\* property names, or is absent when it has none
IsFullyRequired(f) ==
    /\ "properties" \in DOMAIN f
    /\ RequiredNames(f) = OwnNames(f)
    /\ OwnNames(f) = {} => ~HasRequired(f)

\* C11: merging the singleton list of a fragment whose `required` covers
\* exactly its own properties gives back the same properties, with the same
\* sub-fragments, and the same required set.
C11_MergeIdentity ==
    (Returned /\ Len(schemas) = 1 /\ IsFullyRequired(schemas[1])) =>
        /\ DOMAIN result \ {"required"} = DOMAIN schemas[1] \ {"required"}
        /\ result.type = schemas[1].type
        /\ result.properties = schemas[1].properties
        /\ HasRequired(result) <=> HasRequired(schemas[1])
        /\ RequiredNames(result) = RequiredNames(schemas[1])

\* a fragment with two properties, both required
C11_Witness ==
    /\ Returned
    /\ Len(schemas) = 1
    /\ IsFullyRequired(schemas[1])
    /\ OwnNames(schemas[1]) = {"a", "constructor"}
    /\ RequiredNames(result) = {"a", "constructor"}

(***************************************************************************)
(* Properties of deduplicateSchemas (DedupSpec).                           *)
(***************************************************************************)
\* a fragment without its undefined-valued attributes, which count as absent
RECURSIVE Plain(_)
Plain(f) ==
    [n \in {m \in DOMAIN f : m = "required" => f.required # Undefined} |->
        IF n = "properties"
        THEN [i \in 1..Len(f.properties) |->
                [k |-> f.properties[i].k, v |-> Plain(f.properties[i].v)]]
        ELSE IF n = "items" THEN Plain(f.items)
        ELSE IF n = "oneOf" THEN [i \in 1..Len(f.oneOf) |-> Plain(f.oneOf[i])]
        ELSE f[n]]

\* structural equality: the same attributes with the same values, the keys of
\* `properties` in the same order
StructurallyEqual(f, g) == Plain(f) = Plain(g)

\* the position in xs of the first fragment structurally equal to f
FirstOccurrence(xs, f) ==
    CHOOSE i \in 1..Len(xs) :
        /\ StructurallyEqual(xs[i], f)
        /\ \A j \in 1..(i - 1) : ~StructurallyEqual(xs[j], f)

RECURSIVE Canonical(_)
Canonical(f) ==
    [n \in {m \in DOMAIN f : m = "required" => f.required # Undefined} |->
        IF n = "properties"
        THEN {[k |-> f.properties[i].k, v |-> Canonical(f.properties[i].v)] :
                i \in 1..Len(f.properties)}
        ELSE IF n = "items" THEN Canonical(f.items)
        ELSE IF n = "oneOf" THEN [i \in 1..Len(f.oneOf) |-> Canonical(f.oneOf[i])]
        ELSE f[n]]

\* C13: fragments with the same keys and the same nested values are equal for
\* deduplicateSchemas whatever the order of their keys: no two members of the
\* result differ in key order only.
C13_EqualityIsCanonical ==
    Returned =>
        \A i, j \in 1..Len(result) :
            i # j => Canonical(result[i]) # Canonical(result[j])

\* C14: deduplicateSchemas(deduplicateSchemas(xs)) equals
\* deduplicateSchemas(xs), element by element and in the same order.
C14_DedupIdempotent ==
    Returned => deduplicateSchemas(result) = result

\* [A, A, A] is reduced to [A], and reducing [A] again changes nothing
C14_Witness ==
    /\ Returned
    /\ Len(schemas) = 3
    /\ schemas[1] = schemas[2]
    /\ schemas[2] = schemas[3]
    /\ Len(result) = 1
    /\ deduplicateSchemas(result) = result

(***************************************************************************)
(* Properties of every fragment of a returned tree (Spec).                 *)
(***************************************************************************)
\* a returned tree: the result and everything below it, through `properties`,
\* `items` and `oneOf`; a member that is a function has nothing below it
RECURSIVE FragmentTree(_)
FragmentTree(f) ==
    {f}
    \cup (IF IsCallable(f) THEN {}
          ELSE (IF "properties" \in DOMAIN f
                THEN UNION {FragmentTree(f.properties[i].v) : i \in 1..Len(f.properties)}
                ELSE {})
               \cup (IF "items" \in DOMAIN f THEN FragmentTree(f.items) ELSE {})
               \cup (IF "oneOf" \in DOMAIN f
                     THEN UNION {FragmentTree(f.oneOf[i]) : i \in 1..Len(f.oneOf)}
                     ELSE {}))

\* the alternatives of a `oneOf`: at least two, each of them a fragment, no
\* two with the same serialized text
DistinctAlternatives(alts) ==
    /\ Len(alts) >= 2
    /\ \A i \in 1..Len(alts) : ~IsCallable(alts[i])
    /\ \A i, j \in 1..Len(alts) :
          i # j => JSONStringify(alts[i]) # JSONStringify(alts[j])

\* C15: in every returned tree, every `oneOf` holds at least two fragments,
\* no two of which serialize identically.
C15_OneOfHasDistinctAlternatives ==
    Returned =>
        \A f \in FragmentTree(result) :
            (~IsCallable(f) /\ "oneOf" \in DOMAIN f) => DistinctAlternatives(f.oneOf)

\* C16: in every returned tree, a `required` that is present (not undefined)
\* is a non-empty list without duplicates; where nothing is required there is
\* no `required` instead of an empty list.
C16_RequiredNonEmptyWithoutDuplicates ==
    Returned =>
        \A f \in FragmentTree(result) :
            (~IsCallable(f) /\ HasRequired(f)) =>
                /\ Len(f.required[1]) > 0
                /\ \A i, j \in 1..Len(f.required[1]) :
                      f.required[1][i] = f.required[1][j] => i = j

\* an object with two keys holding an object without keys: the outer fragment
\* requires both keys, the inner ones have no `required`
C16_Witness ==
    /\ Returned
    /\ value.tag = "object"
    /\ HasRequired(result)
    /\ Len(result.required[1]) = 2
    /\ \E f \in FragmentTree(result) :
          /\ ~IsCallable(f)
          /\ "properties" \in DOMAIN f
          /\ f.properties = <<>>
          /\ ~HasRequired(f)

\* the object values among vs, and the union of their own keys
ObjectsAmong(vs) == {v \in vs : v.tag = "object"}

KeysAmong(vs) == UNION {KeysOf(v) : v \in ObjectsAmong(vs)}

\* the values under key k of the objects among vs
ValuesUnder(vs, k) ==
    {Get(v.entries, k)[1] : v \in {w \in ObjectsAmong(vs) : HasOwnProperty(w.entries, k)}}

\* the elements of the arrays among vs
ElementsAmong(vs) == UNION {Range(v.elems) : v \in {w \in vs : w.tag = "array"}}

\* f describes the values vs, all at recursion depth r: every object fragment
\* of f that has `properties` has exactly the own keys of the objects it
\* describes (for the `items` of an array of objects, the keys of its
\* elements). An alternative of a `oneOf` describes the values whose own
\* fragment it is.
RECURSIVE KeysAreOwnKeys(_, _, _)
KeysAreOwnKeys(vs, f, r) ==
    IF IsCallable(f) THEN TRUE
    ELSE IF "oneOf" \in DOMAIN f
    THEN \A i \in 1..Len(f.oneOf) :
            KeysAreOwnKeys({v \in vs : objectToSchema(v, options, r) = f.oneOf[i]},
                           f.oneOf[i], r)
    ELSE /\ ("type" \in DOMAIN f /\ f.type = "object" /\ "properties" \in DOMAIN f) =>
                /\ OwnNames(f) = KeysAmong(vs)
                /\ \A i \in 1..Len(f.properties) :
                      KeysAreOwnKeys(ValuesUnder(vs, f.properties[i].k),
                                     f.properties[i].v, r + 1)
         /\ "items" \in DOMAIN f => KeysAreOwnKeys(ElementsAmong(vs), f.items, r + 1)

\* C17: in every tree returned by objectToSchema, each fragment of type
\* "object" has no `properties` (the position is cut off by the depth bound)
\* or has `properties` whose keys are exactly the own keys of the object at
\* that position.
C17_PropertiesKeysAreOwnKeys ==
    Returned => KeysAreOwnKeys({value}, result, depthArg)

(***************************************************************************)
(* generateObjectSchema on the keys of an object (KeySpec).                *)
(***************************************************************************)
\* C18: an object whose depth bound is not reached gives type "object" with
\* one `properties` entry per own enumerable key and none for an inherited
\* key, each entry the fragment of the key's value at depth + 1, and
\* `required` listing every own key; without own keys, `properties` is {} and
\* there is no `required`.
C18_OneEntryPerOwnKey ==
    (Returned /\ value.tag = "object" /\ ~BoundReached(options, depthArg)) =>
        /\ result.type = "object"
        /\ "properties" \in DOMAIN result
        /\ Len(result.properties) = Len(value.entries)
        /\ \A i \in 1..Len(value.entries) :
              /\ HasOwnProperty(result.properties, value.entries[i].k)
              /\ Get(result.properties, value.entries[i].k)
                    = Some(objectToSchema(value.entries[i].v, options, depthArg + 1))
        /\ RequiredNames(result) = KeysOf(value)
        /\ KeysOf(value) = {} => (result.properties = <<>> /\ ~HasRequired(result))

(***************************************************************************)
(* Leaves (Spec).                                                          *)
(***************************************************************************)
\* C19: a value that is no array and no object gets the same fragment with
\* every depth option, 0 included, and at every current depth, as without a
\* depth option; null always gets exactly {type: "null"}.
C19_LeafIndependentOfDepth ==
    (Returned /\ ~IsContainer(value)) =>
        /\ result = objectToSchema(value, [options EXCEPT !.depth = Undefined], 0)
        /\ value.tag = "null" => result = [type |-> "null"]

\* a string matching the email pattern, reached with the bound already
\* passed: it keeps its format
C19_Witness ==
    /\ Returned
    /\ value = JsString("a@b.co")
    /\ options.depth = Some(0)
    /\ depthArg > 0
    /\ options.detectFormat # Some(FALSE)
    /\ result = [type |-> "string", format |-> "email"]

\* the formats in the order of their tests, and the strings each accepts
FormatPriority == <<"date-time", "email", "uri", "uuid">>

MatchesFormat(fmt, str) ==
    IF fmt = "date-time" THEN MatchesDateTime(str)
    ELSE IF fmt = "email" THEN MatchesEmail(str)
    ELSE IF fmt = "uri" THEN MatchesUri(str)
    ELSE MatchesUuid(str)

\* C20: with format detection on, a string gets the format of the first of
\* date-time, email, uri, uuid it matches, and exactly {type: "string"} when
\* it matches none; a string fragment has `type` and at most one `format`.
C20_FirstMatchingFormat ==
    (Returned /\ value.tag = "string" /\ options.detectFormat # Some(FALSE)) =>
        LET matching == {i \in 1..Len(FormatPriority) :
                            MatchesFormat(FormatPriority[i], value.s)}
        IN /\ DOMAIN result \subseteq {"type", "format"}
           /\ result.type = "string"
           /\ matching = {} => result = [type |-> "string"]
           /\ matching # {} =>
                 /\ "format" \in DOMAIN result
                 /\ \E i \in matching :
                       /\ result.format = FormatPriority[i]
                       /\ \A j \in matching : i <= j

\* a string matching both the email and the uri pattern gets "email"
C20_Witness ==
    /\ Returned
    /\ value = JsString("http://a@b.co")
    /\ options.detectFormat # Some(FALSE)
    /\ MatchesEmail(value.s) /\ MatchesUri(value.s)
    /\ result = [type |-> "string", format |-> "email"]

(***************************************************************************)
(* Format detection switched off (Spec).                                   *)
(***************************************************************************)
\* C21: with detectFormat false no fragment of the returned tree has a
\* `format`, whatever the value and the depth option, and a string is
\* classified as exactly {type: "string"} whatever pattern it matches.
C21_NoFormatWhenDetectionOff ==
    (Returned /\ options.detectFormat = Some(FALSE)) =>
        /\ \A f \in FragmentTree(result) : ~IsCallable(f) => "format" \notin DOMAIN f
        /\ value.tag = "string" => result = [type |-> "string"]

\* an object holding a string that matches the email pattern: the property
\* is a bare string
C21_Witness ==
    /\ Returned
    /\ options.detectFormat = Some(FALSE)
    /\ value = JsObject(<<[k |-> "a", v |-> JsString("a@b.co")]>>)
    /\ result.properties[1].v = [type |-> "string"]

\* C22: a value that is not null, no array and no object gets a fragment:
\* {type: "integer"} for a whole number, {type: "number"} for a fractional
\* one, {type: "boolean"} for true and false, the string fragment for a
\* string, and {type: T} with T its runtime type name for any other value.
C22_PrimitiveClassification ==
    (Returned /\ value.tag \notin {"null", "array", "object"}) =>
        /\ result # NoResult
        /\ value.tag = "number" =>
              result = [type |-> IF value.num % value.den = 0 THEN "integer" ELSE "number"]
        /\ value.tag = "boolean" => result = [type |-> "boolean"]
        /\ value.tag = "string" => result = generateStringSchema(value.s, options)
        /\ value.tag \notin {"number", "boolean", "string"} => result = [type |-> value.tag]

\* a symbol gets {type: "symbol"}
C22_Witness ==
    /\ Returned
    /\ value = JsSymbol
    /\ result = [type |-> "symbol"]

(***************************************************************************)
(* Properties of jsonToSchema (JsonSpec).                                  *)
(***************************************************************************)
Threw == pc = "throw"

\* the attributes of a schema other than `$schema`
EngineAttributes(schema) == DOMAIN schema \ {"$schema"}

\* two schemas with the same attributes other than `$schema`
SameButSchemaUrl(s1, s2) ==
    /\ EngineAttributes(s1) = EngineAttributes(s2)
    /\ \A n \in EngineAttributes(s1) : s1[n] = s2[n]

\* C23: for a text that parses, the schema returned has `$schema` = the
\* draft-07 URL when schemaVersion is "07" or unset, the 2019-09 URL for
\* "2019-09" and the 2020-12 URL for "2020-12"; its other attributes are
\* those of objectToSchema(parse(text), options); with another schemaVersion
\* only `$schema` differs, also when a depth is set.
C23_EnvelopeAddsOnlySchemaUrl ==
    Returned =>
        /\ "$schema" \in DOMAIN result
        /\ options.schemaVersion \in {Undefined, Some("07")} =>
              result["$schema"] = "http://json-schema.org/draft-07/schema#"
        /\ options.schemaVersion = Some("2019-09") =>
              result["$schema"] = "https://json-schema.org/draft/2019-09/schema"
        /\ options.schemaVersion = Some("2020-12") =>
              result["$schema"] = "https://json-schema.org/draft/2020-12/schema"
        /\ SameButSchemaUrl(result, objectToSchema(value, options, 0))
        /\ \A sv \in {Undefined, Some("07"), Some("2019-09"), Some("2020-12")} :
              SameButSchemaUrl(result,
                  jsonToSchema(jsonString, [options EXCEPT !.schemaVersion = sv]).returned)

\* an object text with depth 1 and schemaVersion "2020-12"
C23_Witness ==
    /\ Returned
    /\ options.schemaVersion = Some("2020-12")
    /\ options.depth = Some(1)
    /\ value.tag = "object"
    /\ Len(value.entries) = 2
    /\ result["$schema"] = "https://json-schema.org/draft/2020-12/schema"
    /\ result.type = "object"
    /\ Len(result.properties) = 2

\* C24: a text that does not parse makes jsonToSchema throw one error whose
\* message is "Invalid JSON" followed by the message of the parse failure,
\* and no schema is returned; a text that parses never makes it throw.
C24_InvalidJsonIsTheOnlyError ==
    /\ pc # "call" => (Threw <=> ~JSONParse(jsonString).ok)
    /\ jsonString \in WellFormedTexts => ~Threw
    /\ jsonString = <<>> => pc = "call" \/ Threw
    /\ Threw =>
          /\ DOMAIN result = {"thrown"}
          /\ result.thrown = <<"Invalid JSON: ", JSONParse(jsonString).message>>
          /\ value = JsUndefined
    /\ Returned => "thrown" \notin DOMAIN result /\ "$schema" \in DOMAIN result

\* an object text cut before its closing brace
C24_Witness ==
    /\ Threw
    /\ Len(jsonString) = 4
    /\ jsonString[1] = Punct("{")
    /\ jsonString[4] = Lit(JsNumber(1, 1))
    /\ result.thrown = <<"Invalid JSON: ", UnexpectedEnd>>

\* a schema without any `required`, at every level
RECURSIVE WithoutRequired(_)
WithoutRequired(f) ==
    IF IsCallable(f) THEN f
    ELSE [n \in DOMAIN f \ {"required"} |->
            IF n = "properties"
            THEN [i \in 1..Len(f.properties) |->
                    [k |-> f.properties[i].k, v |-> WithoutRequired(f.properties[i].v)]]
            ELSE IF n = "items" THEN WithoutRequired(f.items)
            ELSE IF n = "oneOf" THEN [i \in 1..Len(f.oneOf) |-> WithoutRequired(f.oneOf[i])]
            ELSE f[n]]

\* C25: with optimizeForLLM true the schema returned by jsonToSchema has no
\* `required` at any level and is otherwise the schema returned for the same
\* text and options with optimizeForLLM false.
C25_OptimizeForLLMStripsRequired ==
    (Returned /\ options.optimizeForLLM = Some(TRUE)) =>
        /\ \A f \in FragmentTree(result) : ~IsCallable(f) => ~HasRequired(f)
        /\ Plain(result) =
              WithoutRequired(
                  jsonToSchema(jsonString,
                               [options EXCEPT !.optimizeForLLM = Some(FALSE)]).returned)

(***************************************************************************)
(* The depth bound at a container (Spec).                                  *)
(***************************************************************************)
\* C26: objectToSchema called on an array or an object at a current depth >=
\* the depth option returns exactly {type: "array"} or exactly
\* {type: "object"}, whatever the container holds: an empty array at the
\* bound has no `items`, and depth 0 cuts the root container.
C26_ContainerAtBoundIsTypeOnly ==
    (Returned /\ IsContainer(value) /\ BoundReached(options, depthArg)) =>
        /\ value.tag = "array" => result = [type |-> "array"]
        /\ value.tag = "object" => result = [type |-> "object"]

\* the empty array as the root with depth 0
C26_Witness ==
    /\ Returned
    /\ value = JsArray(<<>>)
    /\ options.depth = Some(0)
    /\ depthArg = 0
    /\ result = [type |-> "array"]

(***************************************************************************)
(* Key order (JsonSpec): the text gives the insertion order of the keys.   *)
(***************************************************************************)
\* the number of containers open in front of the i-th token
NestingAt(text, i) ==
    Cardinality({j \in 1..(i - 1) : text[j].t \in {"{", "["}})
    - Cardinality({j \in 1..(i - 1) : text[j].t \in {"}", "]"}})

\* the keys of the outermost object of a text, in the order they are first
\* written: the order in which JSON.parse inserts them
InsertionOrder(text) ==
    LET positions == SelectSeq([i \in 1..Len(text) |-> i],
                        LAMBDA i : /\ NestingAt(text, i) = 1
                                   /\ text[i].t = "lit"
                                   /\ i < Len(text)
                                   /\ text[i + 1].t = ":")
    IN SetAddAll(<<>>, [n \in 1..Len(positions) |-> text[positions[n]].v.s])

\* a list of keys in own-key enumeration order: the array indices in
\* ascending numeric order, then the other keys as they come
EnumerationOrder(keys) ==
    SelectSeq(<<"0", "1", "10">>, LAMBDA k : k \in Range(keys))
    \o SelectSeq(keys, LAMBDA k : k \notin {"0", "1", "10"})

\* `required` lists exactly keys, and is absent when there are none
RequiredIs(f, keys) ==
    IF keys = <<>> THEN ~HasRequired(f) ELSE HasRequired(f) /\ f.required[1] = keys

\* list holds some of the keys of order, in the order they have there
InOrderOf(list, order) == list = SelectSeq(order, LAMBDA k : k \in Range(list))

\* the elements of `required`, none when it is absent
RequiredList(f) == IF HasRequired(f) THEN f.required[1] ELSE <<>>

\* C27 as stated: for every object, whatever its keys (integer-like ones
\* included), the keys of `properties` and the elements of `required` are in
\* the object's key insertion order, and the two orders agree.  (Which keys
\* are listed is C18; this is about their order.)
C27_KeysInInsertionOrder ==
    (Returned /\ value.tag = "object" /\ "properties" \in DOMAIN result) =>
        /\ InOrderOf(ObjectKeys(result.properties), InsertionOrder(jsonString))
        /\ InOrderOf(RequiredList(result), InsertionOrder(jsonString))
        /\ InOrderOf(ObjectKeys(result.properties), RequiredList(result))

\* C27 amended: `required` lists the own keys in enumeration order (array
\* indices first, ascending, then the other keys in insertion order), and
\* the keys of `properties` come in that same order.
C27_KeysInEnumerationOrder ==
    (Returned /\ value.tag = "object" /\ "properties" \in DOMAIN result) =>
        LET enumerated == EnumerationOrder(InsertionOrder(jsonString))
        IN /\ RequiredIs(result, enumerated)
           /\ InOrderOf(ObjectKeys(result.properties), enumerated)
           /\ InOrderOf(ObjectKeys(result.properties), RequiredList(result))

\* {"10": ..., "1": ...}: written 10 then 1, listed 1 then 10
C27_Witness ==
    /\ Returned
    /\ value.tag = "object"
    /\ "properties" \in DOMAIN result
    /\ InsertionOrder(jsonString) = <<"10", "1">>
    /\ result.required = Some(<<"1", "10">>)
    /\ ObjectKeys(result.properties) = <<"1", "10">>

(***************************************************************************)
(* The recursion of objectToSchema (Spec).                                 *)
(***************************************************************************)
\* the number of container levels below the root of v that hold a value
RECURSIVE NestingHeight(_), HighestOf(_, _)
NestingHeight(v) ==
    IF ~IsContainer(v) THEN 0
    ELSE LET own == OwnKeysOfLoop(v)
             held == IF v.tag = "array" THEN v.elems
                     ELSE [i \in 1..Len(own) |-> own[i].v]
         IN IF held = <<>> THEN 0 ELSE 1 + HighestOf(held, Len(held))

\* the largest nesting height among the first n values a container holds
HighestOf(held, n) ==
    IF n = 0 THEN 0
    ELSE LET h == NestingHeight(held[n])
             rest == HighestOf(held, n - 1)
         IN IF h > rest THEN h ELSE rest

\* the largest current depth among a set of calls
DeepestCall(calls) ==
    CHOOSE d \in {c[2] : c \in calls} : \A c \in calls : c[2] <= d

\* C28: objectToSchema returns a fragment for every value and options; the
\* current depth of its calls starts at the caller's (0 by default) and
\* grows by one per container level, and with depth k no call is made at a
\* current depth above k: a container at depth k is not descended into, and
\* the recursion is no deeper than min(nesting height, k).
C28_RecursionBoundedByDepth ==
    Returned =>
        LET calls == Invocations(value, options, depthArg)
            height == NestingHeight(value)
            deepest == DeepestCall(calls)
        IN /\ result # NoResult /\ "type" \in DOMAIN result
           /\ <<value, depthArg>> \in calls
           /\ \A c \in calls :
                 /\ c[2] >= depthArg
                 /\ c[2] <= depthArg + height
                 /\ (IsContainer(c[1]) /\ ~BoundReached(options, c[2])) =>
                       \A child \in Children(c[1]) : <<child, c[2] + 1>> \in calls
           /\ (options.depth # Undefined /\ depthArg <= options.depth[1]) =>
                 /\ \A c \in calls : c[2] <= options.depth[1]
                 /\ deepest - depthArg
                       <= IF height < options.depth[1] - depthArg
                          THEN height ELSE options.depth[1] - depthArg
           /\ options.depth = Undefined => deepest = depthArg + height

\* three container levels with depth 1: the calls stop at depth 1
C28_Witness ==
    /\ Returned
    /\ depthArg = 0
    /\ options.depth = Some(1)
    /\ NestingHeight(value) = 3
    /\ DeepestCall(Invocations(value, options, depthArg)) = 1

(***************************************************************************)
(* Algebra of mergeObjectSchemas (MergeSpec).                              *)
(***************************************************************************)
\* the rearrangements of a list
PermutationsOf(ss) ==
    {[i \in 1..Len(ss) |-> ss[p[i]]] :
        p \in {q \in [1..Len(ss) -> 1..Len(ss)] :
                  \A i, j \in 1..Len(ss) : q[i] = q[j] => i = j}}

\* the alternatives a merged fragment gives for one of its properties: the
\* members of its oneOf, or the single fragment
Alternatives(f, prop) ==
    LET s == Get(f.properties, prop)[1]
    IN IF ~IsCallable(s) /\ "oneOf" \in DOMAIN s
       THEN {Plain(s.oneOf[i]) : i \in 1..Len(s.oneOf)}
       ELSE {Plain(s)}

\* C29: for every rearrangement of the input list mergeObjectSchemas gives
\* the same set of property names, the same `required` set and, for each
\* property, the same set of alternatives.
C29_MergeOrderIndependent ==
    Returned =>
        \A ps \in PermutationsOf(schemas) :
            LET other == mergeObjectSchemas(ps)
            IN /\ OwnNames(other) = OwnNames(result)
               /\ RequiredNames(other) = RequiredNames(result)
               /\ \A prop \in OwnNames(result) :
                     Alternatives(other, prop) = Alternatives(result, prop)

\* two fragments giving property "a" different sub-fragments: the oneOf of
\* the reversed list has the same members in the other order
C29_Witness ==
    /\ Returned
    /\ Len(schemas) = 2
    /\ "a" \in OwnNames(result)
    /\ "oneOf" \in DOMAIN Get(result.properties, "a")[1]
    /\ mergeObjectSchemas(<<schemas[2], schemas[1]>>) # result

\* C30: merging the merge of xs with one more fragment y gives the same
\* property names and the same `required` set as merging xs followed by y
\* at once, so that a property required after the incremental merge is a
\* property of every one of the original fragments.
C30_IncrementalMergeAgreesOnRequired ==
    (Returned /\ Len(schemas) >= 1) =>
        \A y \in ObjectFragments :
            LET incremental == mergeObjectSchemas(<<result, y>>)
                atOnce == mergeObjectSchemas(Append(schemas, y))
            IN /\ OwnNames(incremental) = OwnNames(atOnce)
               /\ RequiredNames(incremental) = RequiredNames(atOnce)
               /\ \A p \in RequiredNames(incremental) :
                     /\ p \in OwnNames(y)
                     /\ \A i \in 1..Len(schemas) : p \in OwnNames(schemas[i])

====
